---- MODULE Spec2Model ----
(***************************************************************************)
(* Model of multilspy's Eclipse JDTLS language-server driver:              *)
(*   - EclipseJDTLS.start_server: the asynchronous handshake that takes a  *)
(*     freshly started server process to the point where the server is     *)
(*     yielded to the caller, and the shutdown that follows the scope;     *)
(*   - EclipseJDTLS.setupRuntimeDependencies: provisioning of the runtime  *)
(*     artifacts on the shared static directory, by one caller and by two  *)
(*     concurrent callers;                                                 *)
(*   - MultilspyConfig and EclipseJDTLSConfig: construction and            *)
(*     get_initialization_params;                                          *)
(*   - EclipseJDTLS.__init__: from the configuration to the                *)
(*     ProcessLaunchInfo.                                                  *)
(* Line numbers refer to                                                   *)
(*   src/src/multilspy/language_servers/eclipse_jdtls/eclipse_jdtls.py     *)
(* unless the section says otherwise.                                      *)
(***************************************************************************)
EXTENDS Integers, Sequences, FiniteSets, TLC

VARIABLES
    \* ---- handshake (start_server) ----
    pc,                 \* position of the start_server coroutine
    failure,            \* why start_server raised ("none" while it has not)
    handlers,           \* method -> number of handlers registered on the transport
    processRunning,     \* the child process is alive
    outbound,           \* messages written to the server, in order
    inbound,            \* frames written by the server, not yet dispatched
    nSent,              \* server-initiated messages sent so far
    observed,           \* server-initiated messages dispatched to a handler
    handlerRaised,      \* some inbound handler raised (a failed assert)
    completions_available,
    intellicode_enable_command_available,
    service_ready_event,
    init_response,      \* result of the initialize request, once resolved
    intellicode_enable_result, \* result of java.intellicode.enable, once resolved
    shutdown_response,  \* the shutdown request is resolved
    everReady,          \* the server was yielded to the caller
    \* ---- provisioning (setupRuntimeDependencies) ----
    fs,                 \* paths that exist on disk
    platformId,         \* PlatformUtils.get_platform_id().value
    ppc,                \* position inside setupRuntimeDependencies
    call,               \* number of the current call
    downloads,          \* call -> invocations of download_and_extract_archive
    returned,           \* call -> RuntimeDependencyPaths returned (or NoPaths)
    chmods,             \* invocations of os.chmod on jre_path so far
    \* ---- concurrent provisioning (two sessions, one static directory) ----
    spc,                \* session -> position inside setupRuntimeDependencies
    extracting,         \* session -> paths its running extraction has yet to write
    \* ---- configuration and construction (MultilspyConfig, EclipseJDTLS.__init__) ----
    config,             \* the configuration object, once built
    init_params,        \* outcome of config.get_initialization_params()
    cpc,                \* position inside EclipseJDTLS.__init__
    launch_info         \* the ProcessLaunchInfo handed to the base class

hvars == <<pc, failure, handlers, processRunning, outbound, inbound, nSent,
           observed, handlerRaised, completions_available,
           intellicode_enable_command_available, service_ready_event,
           init_response, intellicode_enable_result, shutdown_response,
           everReady>>
pvars == <<platformId, ppc, call, downloads, returned, chmods>>
svars == <<spc, extracting>>
cvars == <<config, init_params, cpc, launch_info>>
vars == <<hvars, pvars, fs, svars, cvars>>

(***************************************************************************)
(* Bounds                                                                  *)
(***************************************************************************)
\* server-initiated requests/notifications in one session
MaxInbound == 3
\* successive calls of setupRuntimeDependencies
MaxCalls == 2
\* sessions started in turn on one object
MaxStarts == 2

(***************************************************************************)
(* The filesystem paths setupRuntimeDependencies computes.                 *)
(***************************************************************************)
PlatformIds == {"linux-x64", "win-x64", "osx-arm64"}

\* mutant: the allow-list also admits a platform the manifest does not serve
SupportedPlatformsWithOsx == {"linux-x64", "win-x64", "osx-arm64"}

\* lines 144-147
SupportedPlatforms == {"linux-x64", "win-x64"}

\* lines 149-154: platform agnostic
gradle_path == <<"static", "gradle-7.3.3">>

\* lines 157-162: what the gradle archive holds below its top directory; the
\* code never names any of it
gradle_contents_path == <<"static", "gradle-7.3.3", "contents">>

\* lines 166-175: the extraction path is read from the manifest entry of the platform
vscode_java_path(p) == <<"static", "vscode-java", p>>
jre_home_path(p) == <<"static", "vscode-java", p, "jre_home">>
jre_path(p) == <<"static", "vscode-java", p, "jre">>
lombok_jar_path(p) == <<"static", "vscode-java", p, "lombok_jar">>
jdtls_launcher_jar_path(p) == <<"static", "vscode-java", p, "jdtls_launcher_jar">>
jdtls_readonly_config_path(p) == <<"static", "vscode-java", p, "jdtls_readonly_config">>

\* lines 199-205: platform agnostic
intellicode_directory_path == <<"static", "intellicode">>
intellicode_jar_path == <<"static", "intellicode", "intellicode_jar">>
intellisense_members_path == <<"static", "intellicode", "intellisense_members">>

VscodeSubPaths(p) ==
    {jre_home_path(p), jre_path(p), lombok_jar_path(p),
     jdtls_launcher_jar_path(p), jdtls_readonly_config_path(p)}

IntellicodeSubPaths == {intellicode_jar_path, intellisense_members_path}

AllPaths(p) ==
    {gradle_path, gradle_contents_path, vscode_java_path(p), intellicode_directory_path}
        \cup VscodeSubPaths(p) \cup IntellicodeSubPaths

\* a sub-path exists only inside its directory
Consistent(f, p) ==
    /\ gradle_contents_path \in f => gradle_path \in f
    /\ (f \cap VscodeSubPaths(p) # {}) => vscode_java_path(p) \in f
    /\ (f \cap IntellicodeSubPaths # {}) => intellicode_directory_path \in f

\* lines 221-230
RuntimeDependencyPaths(p) ==
    [gradle_path |-> gradle_path,
     lombok_jar_path |-> lombok_jar_path(p),
     jre_path |-> jre_path(p),
     jre_home_path |-> jre_home_path(p),
     jdtls_launcher_jar_path |-> jdtls_launcher_jar_path(p),
     jdtls_readonly_config_path |-> jdtls_readonly_config_path(p),
     intellicode_jar_path |-> intellicode_jar_path,
     intellisense_members_path |-> intellisense_members_path]

NoPaths == [none |-> TRUE]

\* the two sessions of the concurrent-provisioning scenario
Sessions == {"A", "B"}

\* Python's None
None == [none |-> "None"]

(***************************************************************************)
(* Messages of the server.                                                 *)
(***************************************************************************)
ExpectedTriggerCharacters == <<".", "@", "#", "*", " ">>

CompletionRegistration(resolve, triggers) ==
    [method |-> "textDocument/completion",
     registerOptions |-> [resolveProvider |-> resolve, triggerCharacters |-> triggers]]

ExecuteCommandRegistration(commands) ==
    [method |-> "workspace/executeCommand",
     registerOptions |-> [commands |-> commands]]

GoodCompletion == CompletionRegistration(TRUE, ExpectedTriggerCharacters)
NoResolveCompletion == CompletionRegistration(FALSE, ExpectedTriggerCharacters)
IntellicodeCommands == ExecuteCommandRegistration(<<"java.edit.organizeImports", "java.intellicode.enable">>)
OtherCommands == ExecuteCommandRegistration(<<"java.edit.organizeImports">>)

RegisterCapability(regs) ==
    [kind |-> "request", method |-> "client/registerCapability",
     params |-> [registrations |-> regs]]

LanguageStatus(type, message) ==
    [kind |-> "notification", method |-> "language/status",
     params |-> [type |-> type, message |-> message]]

ExecuteClientCommand(command, arguments) ==
    [kind |-> "request", method |-> "workspace/executeClientCommand",
     params |-> [command |-> command, arguments |-> arguments]]

LogMessage ==
    [kind |-> "notification", method |-> "window/logMessage",
     params |-> [type |-> "3", message |-> "log"]]

ServiceReady == LanguageStatus("ServiceReady", "ServiceReady")

\* what the server may send on its own
ServerMessages ==
    {RegisterCapability(<<GoodCompletion>>),
     RegisterCapability(<<IntellicodeCommands>>),
     RegisterCapability(<<OtherCommands>>),
     RegisterCapability(<<NoResolveCompletion, IntellicodeCommands>>),
     ServiceReady,
     LanguageStatus("ProjectStatus", "OK"),
     ExecuteClientCommand("java.other", <<>>),
     LogMessage}

Response(to, result) == [kind |-> "response", method |-> to, result |-> result]

\* capabilities of an initialize response
Capabilities(change, completionProvider, executeCommandProvider) ==
    [change |-> change, completionProvider |-> completionProvider,
     executeCommandProvider |-> executeCommandProvider]

InitializeResults ==
    {Capabilities(c, cp, ecp) : c \in {1, 2}, cp \in BOOLEAN, ecp \in BOOLEAN}

NoResult == [none |-> TRUE]

HandlerMethods ==
    {"client/registerCapability", "language/status", "window/logMessage",
     "workspace/executeClientCommand", "$/progress",
     "textDocument/publishDiagnostics", "language/actionableNotification"}

(***************************************************************************)
(* Inbound handlers installed by start_server (lines 248-282).             *)
(***************************************************************************)
HasCommand(commands, c) == \E i \in 1..Len(commands) : commands[i] = c

\* lines 252-259: the two asserts on a textDocument/completion registration
CompletionRegistrationOK(registration) ==
    /\ registration.registerOptions.resolveProvider = TRUE
    /\ registration.registerOptions.triggerCharacters = ExpectedTriggerCharacters

\* mutant: any workspace/executeCommand registration counts
AnnouncesAnyCommand(registration) ==
    registration.method = "workspace/executeCommand"

\* lines 261-262
AnnouncesIntellicode(registration) ==
    /\ registration.method = "workspace/executeCommand"
    /\ HasCommand(registration.registerOptions.commands, "java.intellicode.enable")

\* lines 250-263: the loop over params["registrations"], from registration i on;
\* st holds the two events and whether an assert has failed
RECURSIVE RegistrationLoop(_, _, _)
RegistrationLoop(regs, i, st) ==
    IF i > Len(regs) THEN st
    ELSE LET registration == regs[i]
             isCompletion == registration.method = "textDocument/completion"
         IN  IF isCompletion /\ ~CompletionRegistrationOK(registration)
             THEN [st EXCEPT !.raised = TRUE]
             ELSE RegistrationLoop(regs, i + 1,
                     [completions |-> st.completions \/ isCompletion,
                      intellicode |-> st.intellicode \/ AnnouncesIntellicode(registration),
                      raised |-> FALSE])

\* lines 248-264
register_capability_handler(params, st) ==
    IF "registrations" \notin DOMAIN params
    THEN [st EXCEPT !.raised = TRUE]
    ELSE RegistrationLoop(params.registrations, 1, st)

\* mutant: the handler waits for the ProjectStatus notification instead
IsProjectStatusOK(params) ==
    params.type = "ProjectStatus" /\ params.message = "OK"

\* mutant: every language/status notification counts as readiness
IsAnyStatus(params) == params.type \in {"ServiceReady", "ProjectStatus"}

\* line 270
IsServiceReady(params) ==
    params.type = "ServiceReady" /\ params.message = "ServiceReady"

\* lines 274-275
ExecuteClientCommandOK(params) ==
    params.command = "_java.reloadBundles.command" /\ params.arguments = <<>>

\* mutant: the executeCommandProvider assert is missing
CapabilitiesOKWithoutCommandCheck(capabilities) ==
    /\ capabilities.change = 2
    /\ ~capabilities.completionProvider

\* lines 301-303
CapabilitiesOK(capabilities) ==
    /\ capabilities.change = 2
    /\ ~capabilities.completionProvider
    /\ ~capabilities.executeCommandProvider

\* line 321: truthiness of the result of java.intellicode.enable
Truthy(result) == result.value

EnableResults == {[value |-> TRUE], [value |-> FALSE]}

(***************************************************************************)
(* start_server (lines 232-329), one action per statement that sends,      *)
(* suspends or can raise.                                                  *)
(***************************************************************************)
Sent(method) == \E i \in 1..Len(outbound) : outbound[i] = method

Queued(method) ==
    \E i \in 1..Len(inbound) :
        inbound[i].kind = "response" /\ inbound[i].method = method

Terminal == pc \in {"Failed", "Stopped"}

\* an exception leaves the generator: no statement after the raising one runs
Raise(reason) ==
    /\ pc' = "Failed"
    /\ failure' = reason

\* lines 284-290
RegisterHandlers ==
    /\ pc = "NotStarted"
    /\ handlers' = [m \in HandlerMethods |-> handlers[m] + 1]
    /\ pc' = "HandlersRegistered"
    /\ UNCHANGED <<cvars, svars, failure, processRunning, outbound, inbound, nSent, observed,
                   handlerRaised, completions_available,
                   intellicode_enable_command_available, service_ready_event,
                   init_response, intellicode_enable_result, shutdown_response,
                   everReady, pvars, fs>>

\* lines 292-294
StartProcess ==
    /\ pc = "HandlersRegistered"
    /\ processRunning' = TRUE
    /\ pc' = "ProcessStarted"
    /\ UNCHANGED <<cvars, svars, failure, handlers, outbound, inbound, nSent, observed,
                   handlerRaised, completions_available,
                   intellicode_enable_command_available, service_ready_event,
                   init_response, intellicode_enable_result, shutdown_response,
                   everReady, pvars, fs>>

\* the orchestrator writes one message and moves on
SendAt(from, method, to) ==
    /\ pc = from
    /\ outbound' = Append(outbound, method)
    /\ pc' = to
    /\ UNCHANGED <<cvars, svars, failure, handlers, processRunning, inbound, nSent, observed,
                   handlerRaised, completions_available,
                   intellicode_enable_command_available, service_ready_event,
                   init_response, intellicode_enable_result, shutdown_response,
                   everReady, pvars, fs>>

\* a step that only moves the coroutine, or raises
StepAt(from, ok, to, reason) ==
    /\ pc = from
    /\ IF ok THEN pc' = to /\ failure' = failure ELSE Raise(reason)
    /\ UNCHANGED <<cvars, svars, handlers, processRunning, outbound, inbound, nSent, observed,
                   handlerRaised, completions_available,
                   intellicode_enable_command_available, service_ready_event,
                   init_response, intellicode_enable_result, shutdown_response,
                   everReady, pvars, fs>>

\* line 300, the request
SendInitialize == SendAt("ProcessStarted", "initialize", "InitializeSent")

\* mutant: the initialize request is not awaited
InitializeResponseNotAwaited ==
    StepAt("InitializeSent", TRUE, "InitializeAcked", "capabilities")

\* lines 300-303: the response resumes the coroutine, the asserts check it
InitializeResponse ==
    /\ init_response # NoResult
    /\ StepAt("InitializeSent", CapabilitiesOK(init_response), "InitializeAcked",
              "capabilities")

\* line 305
SendInitialized == SendAt("InitializeAcked", "initialized", "ConfiguringCapabilities")

\* lines 307-309
SendDidChangeConfiguration ==
    SendAt("ConfiguringCapabilities", "workspace/didChangeConfiguration",
           "AwaitIntellicode")

\* line 311
WaitIntellicode ==
    /\ intellicode_enable_command_available
    /\ StepAt("AwaitIntellicode", TRUE, "IntellicodeAvailable", "none")

\* lines 313-320
EnableIntellicode ==
    /\ pc = "IntellicodeAvailable"
    /\ IF intellisense_members_path \in fs
       THEN SendAt("IntellicodeAvailable", "workspace/executeCommand", "EnableSent")
       ELSE StepAt("IntellicodeAvailable", FALSE, "Failed", "intellisense_members_path")

\* lines 315-321
EnableResult ==
    /\ intellicode_enable_result # NoResult
    /\ StepAt("EnableSent", Truthy(intellicode_enable_result), "AwaitServiceReady",
              "intellicode_enable_result")

\* mutant: the wait of line 324 is missing
YieldServerWithoutWait ==
    /\ pc = "AwaitServiceReady"
    /\ pc' = "Ready"
    /\ everReady' = TRUE
    /\ UNCHANGED <<cvars, svars, failure, handlers, processRunning, outbound, inbound, nSent,
                   observed, handlerRaised, completions_available,
                   intellicode_enable_command_available, service_ready_event,
                   init_response, intellicode_enable_result, shutdown_response,
                   pvars, fs>>

\* lines 324-326: the wait, then the yield to the caller
YieldServer ==
    /\ pc = "AwaitServiceReady"
    /\ service_ready_event
    /\ pc' = "Ready"
    /\ everReady' = TRUE
    /\ UNCHANGED <<cvars, svars, failure, handlers, processRunning, outbound, inbound, nSent,
                   observed, handlerRaised, completions_available,
                   intellicode_enable_command_available, service_ready_event,
                   init_response, intellicode_enable_result, shutdown_response,
                   pvars, fs>>

\* the caller's block ends normally: the generator resumes after line 326
CallerExits == StepAt("Ready", TRUE, "ScopeExited", "none")

\* the caller's block raises: the exception is thrown into the generator at
\* line 326, which has no try/finally around it
CallerRaises == StepAt("Ready", FALSE, "Failed", "caller")

\* line 328, server.shutdown(): the shutdown request is written
Shutdown == SendAt("ScopeExited", "shutdown", "ShutdownSent")

\* line 328, server.shutdown() returns: the wait for the response has ended (with
\* the response, or with the end of its bounded wait) and the exit notification
\* is written
ShutdownReturns == SendAt("ShutdownSent", "exit", "ShutdownDone")

\* mutant: the process is stopped before server.shutdown() is called
StopBeforeShutdown ==
    /\ pc = "ScopeExited"
    /\ processRunning' = FALSE
    /\ pc' = "Stopped"
    /\ UNCHANGED <<cvars, svars, failure, handlers, outbound, inbound, nSent, observed,
                   handlerRaised, completions_available,
                   intellicode_enable_command_available, service_ready_event,
                   init_response, intellicode_enable_result, shutdown_response,
                   everReady, pvars, fs>>

\* line 329, server.stop()
Stop ==
    /\ pc = "ShutdownDone"
    /\ processRunning' = FALSE
    /\ pc' = "Stopped"
    /\ UNCHANGED <<cvars, svars, failure, handlers, outbound, inbound, nSent, observed,
                   handlerRaised, completions_available,
                   intellicode_enable_command_available, service_ready_event,
                   init_response, intellicode_enable_result, shutdown_response,
                   everReady, pvars, fs>>

\* line 233 entered again: the caller opens a second `async with
\* lsp.start_server()` on the object whose first session has completed. The
\* coroutine's locals and the streams of the next child process start afresh;
\* the events (created at lines 120-122 only) and the handlers registered on
\* self.server keep what the earlier session left.
StartServerAgain ==
    /\ pc = "Stopped"
    /\ everReady
    /\ \A m \in HandlerMethods : handlers[m] < MaxStarts
    /\ pc' = "NotStarted"
    /\ outbound' = <<>>
    /\ inbound' = <<>>
    /\ observed' = {}
    /\ handlerRaised' = FALSE
    /\ init_response' = NoResult
    /\ intellicode_enable_result' = NoResult
    /\ shutdown_response' = FALSE
    /\ everReady' = FALSE
    /\ nSent' = 0
    /\ UNCHANGED <<cvars, svars, failure, handlers, processRunning,
                   completions_available, intellicode_enable_command_available,
                   service_ready_event, pvars, fs>>

(***************************************************************************)
(* The inbound-read task: frames are dispatched in arrival order, a        *)
(* response resolves its request, a request or notification runs the       *)
(* handler registered for its method.                                      *)
(***************************************************************************)
Events ==
    [completions |-> completions_available,
     intellicode |-> intellicode_enable_command_available,
     raised |-> FALSE]

DispatchOf(method) ==
    /\ inbound # <<>>
    /\ Head(inbound).kind # "response"
    /\ Head(inbound).method = method
    /\ handlers[method] > 0
    /\ inbound' = Tail(inbound)
    /\ observed' = observed \cup {Head(inbound)}

\* lines 248-264, run on a client/registerCapability request
RegisterCapabilityHandler ==
    /\ DispatchOf("client/registerCapability")
    /\ LET st == register_capability_handler(Head(inbound).params, Events)
       IN  /\ completions_available' = st.completions
           /\ intellicode_enable_command_available' = st.intellicode
           /\ handlerRaised' = (handlerRaised \/ st.raised)
    /\ UNCHANGED <<cvars, svars, pc, failure, handlers, processRunning, outbound, nSent,
                   service_ready_event, init_response, intellicode_enable_result,
                   shutdown_response, everReady, pvars, fs>>

\* mutant: a wakeup delivered only to an orchestrator already suspended at
\* line 324, lost when the notification is dispatched earlier
LangStatusHandlerWakesWaiterOnly ==
    /\ DispatchOf("language/status")
    /\ service_ready_event' = (service_ready_event
                               \/ (pc = "AwaitServiceReady"
                                   /\ IsServiceReady(Head(inbound).params)))
    /\ UNCHANGED <<cvars, svars, pc, failure, handlers, processRunning, outbound, nSent,
                   handlerRaised, completions_available,
                   intellicode_enable_command_available, init_response,
                   intellicode_enable_result, shutdown_response, everReady,
                   pvars, fs>>

\* lines 266-271, run on a language/status notification
LangStatusHandler ==
    /\ DispatchOf("language/status")
    /\ service_ready_event' = (service_ready_event \/ IsServiceReady(Head(inbound).params))
    /\ UNCHANGED <<cvars, svars, pc, failure, handlers, processRunning, outbound, nSent,
                   handlerRaised, completions_available,
                   intellicode_enable_command_available, init_response,
                   intellicode_enable_result, shutdown_response, everReady,
                   pvars, fs>>

\* lines 273-276, run on a workspace/executeClientCommand request
ExecuteClientCommandHandler ==
    /\ DispatchOf("workspace/executeClientCommand")
    /\ handlerRaised' = (handlerRaised \/ ~ExecuteClientCommandOK(Head(inbound).params))
    /\ UNCHANGED <<cvars, svars, pc, failure, handlers, processRunning, outbound, nSent,
                   completions_available, intellicode_enable_command_available,
                   service_ready_event, init_response, intellicode_enable_result,
                   shutdown_response, everReady, pvars, fs>>

\* lines 278-279, run on a window/logMessage notification
WindowLogMessage ==
    /\ DispatchOf("window/logMessage")
    /\ UNCHANGED <<cvars, svars, pc, failure, handlers, processRunning, outbound, nSent,
                   handlerRaised, completions_available,
                   intellicode_enable_command_available, service_ready_event,
                   init_response, intellicode_enable_result, shutdown_response,
                   everReady, pvars, fs>>

\* a response frame resolves the request it answers
ResolveResponse ==
    /\ inbound # <<>>
    /\ Head(inbound).kind = "response"
    /\ inbound' = Tail(inbound)
    /\ LET m == Head(inbound)
       IN  /\ init_response' =
                IF m.method = "initialize" THEN m.result ELSE init_response
           /\ intellicode_enable_result' =
                IF m.method = "workspace/executeCommand" THEN m.result
                ELSE intellicode_enable_result
           /\ shutdown_response' = (shutdown_response \/ m.method = "shutdown")
    /\ UNCHANGED <<cvars, svars, pc, failure, handlers, processRunning, outbound, nSent,
                   observed, handlerRaised, completions_available,
                   intellicode_enable_command_available, service_ready_event,
                   everReady, pvars, fs>>

(***************************************************************************)
(* The server process and the rest of the environment.                     *)
(***************************************************************************)
\* the server sends a request or a notification of its own
ServerSends ==
    /\ processRunning
    /\ ~Terminal
    /\ nSent < MaxInbound
    /\ \E m \in ServerMessages : inbound' = Append(inbound, m)
    /\ nSent' = nSent + 1
    /\ UNCHANGED <<cvars, svars, pc, failure, handlers, processRunning, outbound, observed,
                   handlerRaised, completions_available,
                   intellicode_enable_command_available, service_ready_event,
                   init_response, intellicode_enable_result, shutdown_response,
                   everReady, pvars, fs>>

Unanswered(method, resolved) ==
    processRunning /\ Sent(method) /\ ~resolved /\ ~Queued(method)

\* the server answers a request of the orchestrator
ServerResponds ==
    /\ \/ /\ Unanswered("initialize", init_response # NoResult)
          /\ \E r \in InitializeResults :
                inbound' = Append(inbound, Response("initialize", r))
       \/ /\ Unanswered("workspace/executeCommand", intellicode_enable_result # NoResult)
          /\ \E r \in EnableResults :
                inbound' = Append(inbound, Response("workspace/executeCommand", r))
       \/ /\ Unanswered("shutdown", shutdown_response)
          /\ inbound' = Append(inbound, Response("shutdown", NoResult))
    /\ UNCHANGED <<cvars, svars, pc, failure, handlers, processRunning, outbound, nSent,
                   observed, handlerRaised, completions_available,
                   intellicode_enable_command_available, service_ready_event,
                   init_response, intellicode_enable_result, shutdown_response,
                   everReady, pvars, fs>>

\* the members file is removed from the shared static directory while the
\* session waits at line 311 (line 314 checks it again)
MembersPathRemoved ==
    /\ pc = "AwaitIntellicode"
    /\ intellisense_members_path \in fs
    /\ fs' = fs \ {intellisense_members_path}
    /\ UNCHANGED <<hvars, pvars, cvars, svars>>

(***************************************************************************)
(* setupRuntimeDependencies (lines 132-230), one action per check,         *)
(* download and group of asserts.                                          *)
(***************************************************************************)
Calls == 1..MaxCalls

PStep(from, ok, to) ==
    /\ ppc = from
    /\ ppc' = IF ok THEN to ELSE "raised"

\* a new call begins (lines 136-142); a call that raised may be followed by another
BeginCall ==
    /\ ppc \in {"idle", "raised"}
    /\ call < MaxCalls
    /\ call' = call + 1
    /\ ppc' = "platform"
    /\ UNCHANGED <<hvars, cvars, svars, chmods, fs, platformId, downloads, returned>>

\* lines 144-147
AssertPlatform ==
    /\ PStep("platform", platformId \in SupportedPlatforms, "gradle_check")
    /\ UNCHANGED <<hvars, cvars, svars, chmods, fs, platformId, call, downloads, returned>>

\* FileUtils.download_and_extract_archive: counts the invocation; the archive
\* leaves some of the paths it is expected to hold under the target, or the
\* download or the extraction raises
DownloadAndExtract(from, expected, to) ==
    /\ ppc = from
    /\ downloads' = [downloads EXCEPT ![call] = @ + 1]
    /\ \E extracted \in SUBSET expected, ok \in BOOLEAN :
          /\ Consistent(fs \cup extracted, platformId)
          /\ fs' = fs \cup extracted
          /\ ppc' = IF ok THEN to ELSE "raised"
    /\ UNCHANGED <<hvars, cvars, svars, chmods, platformId, call, returned>>

\* line 156
CheckGradle ==
    /\ ppc = "gradle_check"
    /\ ppc' = IF gradle_path \in fs THEN "gradle_assert" ELSE "gradle_download"
    /\ UNCHANGED <<hvars, cvars, svars, chmods, fs, platformId, call, downloads, returned>>

\* lines 157-162
DownloadGradle ==
    DownloadAndExtract("gradle_download", {gradle_path, gradle_contents_path},
                       "gradle_assert")

\* line 164
AssertGradle ==
    /\ PStep("gradle_assert", gradle_path \in fs, "vscode_prepare")
    /\ UNCHANGED <<hvars, cvars, svars, chmods, fs, platformId, call, downloads, returned>>

\* lines 166-175, with the os.makedirs of line 170
PrepareVscode ==
    /\ ppc = "vscode_prepare"
    /\ fs' = fs \cup {vscode_java_path(platformId)}
    /\ ppc' = "vscode_check"
    /\ UNCHANGED <<hvars, cvars, svars, chmods, platformId, call, downloads, returned>>

\* mutant: one of the checked paths is misspelt, so it never exists
VscodeCompleteMisspelt(f, p) ==
    ({vscode_java_path(p), <<"static", "vscode-java", p, "jre_hom">>}
        \cup VscodeSubPaths(p)) \subseteq f

\* lines 176-185: all(...) over the directory and its five sub-paths
VscodeComplete(f, p) == ({vscode_java_path(p)} \cup VscodeSubPaths(p)) \subseteq f

CheckVscode ==
    /\ ppc = "vscode_check"
    /\ ppc' = IF VscodeComplete(fs, platformId) THEN "chmod" ELSE "vscode_download"
    /\ UNCHANGED <<hvars, cvars, svars, chmods, fs, platformId, call, downloads, returned>>

\* lines 186-188
DownloadVscode ==
    DownloadAndExtract("vscode_download", VscodeSubPaths(platformId), "chmod")

\* line 190: os.chmod raises when the file is missing
Chmod ==
    /\ PStep("chmod", jre_path(platformId) \in fs, "vscode_assert")
    /\ chmods' = IF jre_path(platformId) \in fs THEN chmods + 1 ELSE chmods
    /\ UNCHANGED <<hvars, cvars, svars, fs, platformId, call, downloads, returned>>

\* lines 192-197: the six asserts
VscodeAsserts(f, p) ==
    /\ vscode_java_path(p) \in f
    /\ jre_home_path(p) \in f
    /\ jre_path(p) \in f
    /\ lombok_jar_path(p) \in f
    /\ jdtls_launcher_jar_path(p) \in f
    /\ jdtls_readonly_config_path(p) \in f

AssertVscode ==
    /\ PStep("vscode_assert", VscodeAsserts(fs, platformId), "intellicode_prepare")
    /\ UNCHANGED <<hvars, cvars, svars, chmods, fs, platformId, call, downloads, returned>>

\* lines 199-205, with the os.makedirs of line 203
PrepareIntellicode ==
    /\ ppc = "intellicode_prepare"
    /\ fs' = fs \cup {intellicode_directory_path}
    /\ ppc' = "intellicode_check"
    /\ UNCHANGED <<hvars, cvars, svars, chmods, platformId, call, downloads, returned>>

\* lines 206-212
IntellicodeComplete(f) == ({intellicode_directory_path} \cup IntellicodeSubPaths) \subseteq f

CheckIntellicode ==
    /\ ppc = "intellicode_check"
    /\ ppc' = IF IntellicodeComplete(fs) THEN "intellicode_assert"
              ELSE "intellicode_download"
    /\ UNCHANGED <<hvars, cvars, svars, chmods, fs, platformId, call, downloads, returned>>

\* lines 213-215
DownloadIntellicode ==
    DownloadAndExtract("intellicode_download", IntellicodeSubPaths, "intellicode_assert")

\* mutant: the assert of line 219 is missing
IntellicodeAssertsWithoutMembers(f) ==
    /\ intellicode_directory_path \in f
    /\ intellicode_jar_path \in f

\* lines 217-219: the three asserts
IntellicodeAsserts(f) ==
    /\ intellicode_directory_path \in f
    /\ intellicode_jar_path \in f
    /\ intellisense_members_path \in f

\* lines 217-230
AssertIntellicodeAndReturn ==
    /\ PStep("intellicode_assert", IntellicodeAsserts(fs), "idle")
    /\ returned' = IF IntellicodeAsserts(fs)
                   THEN [returned EXCEPT ![call] = RuntimeDependencyPaths(platformId)]
                   ELSE returned
    /\ UNCHANGED <<hvars, cvars, svars, chmods, fs, platformId, call, downloads>>

(***************************************************************************)
(* setupRuntimeDependencies run by two sessions at once on one static      *)
(* directory.  The steps are those of the sequential actions above, taken  *)
(* by session s; an extraction writes the paths of its archive one at a    *)
(* time, so the other session can run its existence checks in between.     *)
(* Every download succeeds and every archive is whole.                     *)
(***************************************************************************)
SessionPlatform == "linux-x64"

SGoto(s, from, to) ==
    /\ spc[s] = from
    /\ spc' = [spc EXCEPT ![s] = to]

\* lines 136-154
SBegin(s) ==
    /\ SGoto(s, "idle",
             IF SessionPlatform \in SupportedPlatforms THEN "gradle_check" ELSE "raised")
    /\ UNCHANGED <<hvars, pvars, cvars, fs, extracting>>

\* line 156
SCheckGradle(s) ==
    /\ SGoto(s, "gradle_check",
             IF gradle_path \in fs THEN "gradle_assert" ELSE "gradle_download")
    /\ UNCHANGED <<hvars, pvars, cvars, fs, extracting>>

\* download_and_extract_archive is entered: nothing is on disk yet
SDownload(s, from, expected, to) ==
    /\ SGoto(s, from, to)
    /\ extracting' = [extracting EXCEPT ![s] = expected]
    /\ UNCHANGED <<hvars, pvars, cvars, fs>>

\* the extraction writes one more path, a directory before what it holds, and
\* returns with the last one
SExtract(s, at, to) ==
    /\ spc[s] = at
    /\ \E path \in extracting[s] :
          /\ Consistent(fs \cup {path}, SessionPlatform)
          /\ fs' = fs \cup {path}
          /\ extracting' = [extracting EXCEPT ![s] = @ \ {path}]
          /\ spc' = [spc EXCEPT ![s] = IF extracting[s] = {path} THEN to ELSE at]
    /\ UNCHANGED <<hvars, pvars, cvars>>

\* line 164
SAssertGradle(s) ==
    /\ SGoto(s, "gradle_assert", IF gradle_path \in fs THEN "vscode_prepare" ELSE "raised")
    /\ UNCHANGED <<hvars, pvars, cvars, fs, extracting>>

\* lines 166-175, with the os.makedirs of line 170
SPrepareVscode(s) ==
    /\ SGoto(s, "vscode_prepare", "vscode_check")
    /\ fs' = fs \cup {vscode_java_path(SessionPlatform)}
    /\ UNCHANGED <<hvars, pvars, cvars, extracting>>

\* lines 176-185
SCheckVscode(s) ==
    /\ SGoto(s, "vscode_check",
             IF VscodeComplete(fs, SessionPlatform) THEN "chmod" ELSE "vscode_download")
    /\ UNCHANGED <<hvars, pvars, cvars, fs, extracting>>

\* lines 190-197: os.chmod, then the six asserts
SChmodAndAssertVscode(s) ==
    /\ SGoto(s, "chmod",
             IF jre_path(SessionPlatform) \in fs /\ VscodeAsserts(fs, SessionPlatform)
             THEN "intellicode_prepare" ELSE "raised")
    /\ UNCHANGED <<hvars, pvars, cvars, fs, extracting>>

\* lines 199-205, with the os.makedirs of line 203
SPrepareIntellicode(s) ==
    /\ SGoto(s, "intellicode_prepare", "intellicode_check")
    /\ fs' = fs \cup {intellicode_directory_path}
    /\ UNCHANGED <<hvars, pvars, cvars, extracting>>

\* lines 206-212
SCheckIntellicode(s) ==
    /\ SGoto(s, "intellicode_check",
             IF IntellicodeComplete(fs) THEN "intellicode_assert"
             ELSE "intellicode_download")
    /\ UNCHANGED <<hvars, pvars, cvars, fs, extracting>>

\* lines 217-230: the three asserts, then the return
SAssertIntellicodeAndReturn(s) ==
    /\ SGoto(s, "intellicode_assert",
             IF IntellicodeAsserts(fs) THEN "returned" ELSE "raised")
    /\ UNCHANGED <<hvars, pvars, cvars, fs, extracting>>

(***************************************************************************)
(* The configuration dataclasses and get_initialization_params.  Line      *)
(* numbers in this part refer to src/src/multilspy/multilspy_config.py     *)
(***************************************************************************)
\* lines 18-26
Languages == {"csharp", "python", "rust", "java"}

\* language_servers/__init__.py, lines 8-11
LanguageServers == {"JediServer", "EclipseJDTLS", "RustAnalyzer", "OmniSharp"}

\* the default of line 83
NoServer == "None"

\* lines 54-57
RegisteredServers(code_language) ==
    CASE code_language = "python" -> {"JediServer"}
      [] code_language = "java" -> {"EclipseJDTLS"}
      [] code_language = "rust" -> {"RustAnalyzer"}
      [] code_language = "csharp" -> {"OmniSharp"}

\* how a call ends: with an exception or with a value
Raised(e) == [ok |-> FALSE, error |-> e]
Returned(v) == [ok |-> TRUE, value |-> v]

\* lines 48-68
validate_language_server(code_language, language_server) ==
    IF /\ language_server # NoServer
       /\ language_server \notin RegisteredServers(code_language)
    THEN Raised("ValueError")
    ELSE Returned(language_server)

\* a path string: whether it is absolute, and its components
\* values of repository_absolute_path (line 115): None, "", "proj" and
\* "/home/proj"
RepositoryPaths ==
    {None,
     [abs |-> FALSE, parts |-> <<>>],
     [abs |-> FALSE, parts |-> <<"proj">>],
     [abs |-> TRUE, parts |-> <<"home", "proj">>]}

\* a root other than the repository, as a file or the overrides may name it
OtherRoot == [abs |-> TRUE, parts |-> <<"srv", "other">>]

\* line 140: None and the empty string are falsy
Provided(path) == path # None /\ path # [abs |-> FALSE, parts |-> <<>>]

\* os.path.abspath (the current directory is /cwd), os.path.basename
abspath(path) ==
    IF path.abs THEN path ELSE [abs |-> TRUE, parts |-> <<"cwd">> \o path.parts]
basename(path) == IF path.parts = <<>> THEN "" ELSE path.parts[Len(path.parts)]

\* pathlib.Path(path).as_uri(): raises ValueError unless the path is absolute
as_uri(path) ==
    IF path.abs THEN Returned([scheme |-> "file", parts |-> path.parts])
    ELSE Raised("ValueError")

\* the top-level keys of InitializeParams the model follows; a dictionary is
\* a function over them, Absent marking a key it does not hold
Keys == {"rootPath", "rootUri", "workspaceFolders", "capabilities",
         "initializationOptions", "processId"}
Absent == [absent |-> TRUE]
Dict(d) == [k \in Keys |-> IF k \in DOMAIN d THEN d[k] ELSE Absent]
\* an initializationOptions dictionary without entries
EmptyOptions == [workspaceFolders |-> Absent, bundles |-> Absent, settings |-> Absent]
EmptyDict == [k \in Keys |-> Absent]
Has(d, k) == d[k] # Absent

\* {**a, **b}
Merge(a, b) == [k \in DOMAIN a |-> IF Has(b, k) THEN b[k] ELSE a[k]]

\* values found in the files and in the overrides
Placeholder == [placeholder |-> "$rootPath"]
Lit(layer, key) == [layer |-> layer, key |-> key]

\* lines 144-149 and 240-245
Folders(path) == [list |-> <<[uri |-> as_uri(path).value, name |-> basename(path)]>>]

\* lines 159-172: the per-backend default file, chosen by lines 31-46
DefaultParams(code_language) ==
    Dict([rootPath |-> Placeholder,
          rootUri |-> Lit(code_language, "rootUri"),
          workspaceFolders |-> Lit(code_language, "workspaceFolders"),
          capabilities |-> Lit(code_language, "capabilities"),
          initializationOptions |->
              [EmptyOptions EXCEPT !["settings"] = Lit(code_language, "settings")],
          processId |-> Lit(code_language, "processId")])

\* contents of the file custom_init_params_file names (lines 174-190)
CustomFiles ==
    {Dict([capabilities |-> Lit("custom", "capabilities")]),
     Dict([rootPath |-> Placeholder,
           capabilities |-> Lit("custom", "capabilities"),
           workspaceFolders |-> Lit("custom", "workspaceFolders")]),
     Dict([rootPath |-> OtherRoot,
           rootUri |-> as_uri(OtherRoot).value,
           capabilities |-> Lit("custom", "capabilities")])}

\* values of init_params_overrides (line 92)
Overrides ==
    {EmptyDict,
     Dict([capabilities |-> Lit("overrides", "capabilities")]),
     Dict([rootPath |-> OtherRoot, rootUri |-> as_uri(OtherRoot).value])}

\* lines 132-138: the custom file or else the default file, then the
\* overrides (None and the empty dictionary are falsy)
LayeredParams(cfg) ==
    LET params == IF cfg.custom_init_params_file # None
                  THEN cfg.custom_init_params_file
                  ELSE DefaultParams(cfg.code_language)
    IN  IF cfg.init_params_overrides # None /\ cfg.init_params_overrides # EmptyDict
        THEN Merge(params, cfg.init_params_overrides)
        ELSE params

\* mutant: the placeholder is never recognised
RootPathNeverUnresolved(params) == FALSE

\* line 152
RootPathUnresolved(params) == params["rootPath"] = Placeholder

\* lines 121-157
get_initialization_params(cfg) ==
    LET merged == LayeredParams(cfg)
        repo == cfg.repository_absolute_path
    IN  IF Provided(repo)
        THEN IF ~as_uri(repo).ok
             THEN as_uri(repo)
             ELSE Returned(
                     [merged EXCEPT
                         !["rootPath"] = repo,
                         !["rootUri"] = as_uri(repo).value,
                         !["workspaceFolders"] =
                             IF Has(merged, "workspaceFolders") THEN Folders(repo) ELSE @,
                         !["processId"] = [pid |-> "os.getpid()"]])
        ELSE IF ~Has(merged, "rootPath")
             THEN Raised("KeyError")
             ELSE IF RootPathUnresolved(merged)
                  THEN Raised("MultilspyException")
                  ELSE Returned([merged EXCEPT !["processId"] = [pid |-> "os.getpid()"]])

\* lines 233-234
ResolvedRepository(path) == IF ~path.abs THEN abspath(path) ELSE path

\* lines 247-260, on the options of line 239
WithRuntime(options, paths) ==
    [options EXCEPT
        !["bundles"] = [list |-> <<paths.intellicode_jar_path>>],
        !["settings"] = [others |-> options["settings"],
                         runtimes |-> [list |-> <<[name |-> "JavaSE-17",
                                                      path |-> paths.jre_home_path,
                                                      default |-> TRUE]>>],
                         gradle_home |-> paths.gradle_path,
                         gradle_java_home |-> paths.jre_path]]

\* lines 230-262, on a disk holding the paths f (line 257)
eclipse_get_initialization_params(cfg, f) ==
    LET base == get_initialization_params(cfg)
        repo == cfg.repository_absolute_path
        paths == cfg.runtime_dependency_paths
    IN  IF ~base.ok THEN base
        ELSE IF repo = None THEN Raised("TypeError")
        ELSE IF paths # None /\ paths.jre_home_path \notin f
             THEN Raised("AssertionError")
        ELSE LET root == ResolvedRepository(repo)
                 given == IF Has(base.value, "initializationOptions")
                          THEN base.value["initializationOptions"]
                          ELSE EmptyOptions
                 options == [given EXCEPT !["workspaceFolders"] = [list |-> <<as_uri(root).value>>]]
             IN  Returned(
                     [base.value EXCEPT
                         !["initializationOptions"] =
                             IF paths # None THEN WithRuntime(options, paths) ELSE options,
                         !["workspaceFolders"] = Folders(root)])

\* what the call leaves in the configuration object (line 234)
ConfigAfterCall(cfg) ==
    IF /\ cfg.class = "EclipseJDTLSConfig"
       /\ get_initialization_params(cfg).ok
       /\ cfg.repository_absolute_path # None
    THEN [cfg EXCEPT !.repository_absolute_path = ResolvedRepository(@)]
    ELSE cfg

\* the method the class of cfg binds
GetInitializationParamsOf(cfg, f) ==
    IF cfg.class = "EclipseJDTLSConfig"
    THEN eclipse_get_initialization_params(cfg, f)
    ELSE get_initialization_params(cfg)

\* lines 70-115: the generated __init__ stores the arguments; the validator of
\* line 83 sits in the field's metadata, which dataclasses does not run
BuildMultilspyConfig ==
    /\ config = None
    /\ config' \in
          [class : {"MultilspyConfig"},
           code_language : Languages,
           language_server : {NoServer} \cup LanguageServers,
           custom_init_params_file : {None} \cup CustomFiles,
           init_params_overrides : {None} \cup Overrides,
           repository_absolute_path : RepositoryPaths,
           runtime_dependency_paths : {None}]
    /\ UNCHANGED <<hvars, pvars, svars, fs, init_params, cpc, launch_info>>

\* lines 221-228: code_language and language_server are init=False
BuildEclipseJDTLSConfig ==
    /\ config = None
    /\ config' \in
          [class : {"EclipseJDTLSConfig"},
           code_language : {"java"},
           language_server : {"EclipseJDTLS"},
           custom_init_params_file : {None} \cup CustomFiles,
           init_params_overrides : {None} \cup Overrides,
           repository_absolute_path : RepositoryPaths,
           runtime_dependency_paths : {None, RuntimeDependencyPaths(SessionPlatform)}]
    /\ UNCHANGED <<hvars, pvars, svars, fs, init_params, cpc, launch_info>>

\* a caller asks the configuration for its parameters
CallGetInitializationParams ==
    /\ config # None
    /\ init_params = None
    /\ cpc = "idle"
    /\ init_params' = GetInitializationParamsOf(config, fs)
    /\ config' = ConfigAfterCall(config)
    /\ UNCHANGED <<hvars, pvars, svars, fs, cpc, launch_info>>

(***************************************************************************)
(* EclipseJDTLS.__init__ (eclipse_jdtls.py, lines 32-130).                 *)
(***************************************************************************)
\* lines 44-51 and 63: the workspace directory of this object (a fresh uuid)
ws_dir == <<"workspaces", "uuid">>

\* line 66
jdtls_config_path == <<"workspaces", "uuid", "config_path">>

\* line 65
data_dir == <<"workspaces", "uuid", "data_dir">>

\* line 38
CtorGetInitializationParams ==
    /\ cpc = "idle"
    /\ config # None
    /\ config.class = "EclipseJDTLSConfig"
    /\ init_params = None
    /\ init_params' = GetInitializationParamsOf(config, fs)
    /\ config' = ConfigAfterCall(config)
    /\ cpc' = IF GetInitializationParamsOf(config, fs).ok THEN "setup" ELSE "raised"
    /\ UNCHANGED <<hvars, pvars, svars, fs, launch_info>>

\* line 40: setupRuntimeDependencies is running
SetupRunning == cpc = "setup" /\ call = 1

\* lines 40-41: setupRuntimeDependencies has returned
CtorSetupReturns ==
    /\ cpc = "setup"
    /\ cpc' = "makedirs"
    /\ call = 1
    /\ ppc = "idle"
    /\ returned[call] # NoPaths
    /\ UNCHANGED <<hvars, pvars, svars, fs, config, init_params, launch_info>>

\* line 40: setupRuntimeDependencies has raised
CtorSetupRaises ==
    /\ cpc = "setup"
    /\ cpc' = "raised"
    /\ ppc = "raised"
    /\ UNCHANGED <<hvars, pvars, svars, fs, config, init_params, launch_info>>

\* line 63
CtorMakeWorkspace ==
    /\ cpc = "makedirs"
    /\ cpc' = "copytree"
    /\ fs' = fs \cup {ws_dir}
    /\ UNCHANGED <<hvars, pvars, svars, config, init_params, launch_info>>

\* lines 70-71: shutil.copytree raises when its source is missing
CtorCopyConfig ==
    /\ cpc = "copytree"
    /\ IF jdtls_config_path \in fs
       THEN cpc' = "assert" /\ fs' = fs
       ELSE IF jdtls_readonly_config_path(platformId) \in fs
            THEN cpc' = "assert" /\ fs' = fs \cup {jdtls_config_path}
            ELSE cpc' = "raised" /\ fs' = fs
    /\ UNCHANGED <<hvars, pvars, svars, config, init_params, launch_info>>

\* mutant: the loop of lines 73-80 leaves out the runtime binary
LaunchPathsWithoutJre(p) ==
    {lombok_jar_path(p), jdtls_launcher_jar_path(p), jdtls_config_path,
     jdtls_readonly_config_path(p)}

\* lines 73-79
LaunchPaths(p) ==
    {jre_path(p), lombok_jar_path(p), jdtls_launcher_jar_path(p), jdtls_config_path,
     jdtls_readonly_config_path(p)}

\* lines 82-118 and 128
ProcessLaunchInfo(p, params) ==
    [cmd |-> <<jre_path(p), lombok_jar_path(p), jdtls_launcher_jar_path(p),
               jdtls_config_path, data_dir>>,
     env |-> [syntaxserver |-> "false"],
     cwd |-> params["rootPath"]]

\* lines 73-130: the asserts, then the ProcessLaunchInfo handed to the base class
CtorAssertAndLaunchInfo ==
    /\ cpc = "assert"
    /\ IF LaunchPaths(platformId) \subseteq fs
       THEN /\ cpc' = "constructed"
            /\ launch_info' = ProcessLaunchInfo(platformId, init_params.value)
       ELSE /\ cpc' = "raised"
            /\ launch_info' = launch_info
    /\ UNCHANGED <<hvars, pvars, svars, fs, config, init_params>>

\* another process removes a runtime file from the static directory between
\* the return of setupRuntimeDependencies and the asserts of lines 73-80
StaticPathRemoved ==
    /\ cpc \in {"makedirs", "copytree", "assert"}
    /\ \E path \in fs \cap VscodeSubPaths(platformId) : fs' = fs \ {path}
    /\ UNCHANGED <<hvars, pvars, svars, cvars>>

(***************************************************************************)
(* Specifications                                                          *)
(***************************************************************************)
\* no concurrent session runs, no configuration has been built and no object
\* is being constructed
OthersIdle ==
    /\ spc = [s \in Sessions |-> "idle"]
    /\ extracting = [s \in Sessions |-> {}]
    /\ config = None
    /\ init_params = None
    /\ cpc = "idle"
    /\ launch_info = None

HandshakeInit ==
    /\ pc = "NotStarted"
    /\ failure = "none"
    /\ handlers = [m \in HandlerMethods |-> 0]
    /\ processRunning = FALSE
    /\ outbound = <<>>
    /\ inbound = <<>>
    /\ nSent = 0
    /\ observed = {}
    /\ handlerRaised = FALSE
    /\ completions_available = FALSE
    \* lines 120-122
    /\ intellicode_enable_command_available = FALSE
    /\ service_ready_event = FALSE
    /\ init_response = NoResult
    /\ intellicode_enable_result = NoResult
    /\ shutdown_response = FALSE
    /\ everReady = FALSE

\* the object has been constructed (lines 38-130): setupRuntimeDependencies has
\* returned once, on a supported platform, with every artifact on disk
Init ==
    /\ HandshakeInit
    /\ platformId = "linux-x64"
    /\ fs = AllPaths(platformId) \cup {ws_dir, jdtls_config_path}
    /\ ppc = "idle"
    /\ call = 1
    /\ downloads = [c \in Calls |-> 0]
    /\ returned = [c \in Calls |->
                      IF c = 1 THEN RuntimeDependencyPaths(platformId) ELSE NoPaths]
    /\ chmods = 1
    /\ spc = [s \in Sessions |-> "idle"]
    /\ extracting = [s \in Sessions |-> {}]
    /\ config = [class |-> "EclipseJDTLSConfig",
                 code_language |-> "java",
                 language_server |-> "EclipseJDTLS",
                 custom_init_params_file |-> None,
                 init_params_overrides |-> None,
                 repository_absolute_path |-> [abs |-> TRUE, parts |-> <<"home", "proj">>],
                 runtime_dependency_paths |-> None]
    /\ init_params = GetInitializationParamsOf(config, fs)
    /\ cpc = "constructed"
    /\ launch_info = ProcessLaunchInfo(platformId, init_params.value)

Orchestrator ==
    \/ RegisterHandlers
    \/ StartProcess
    \/ SendInitialize
    \/ InitializeResponse
    \/ SendInitialized
    \/ SendDidChangeConfiguration
    \/ WaitIntellicode
    \/ EnableIntellicode
    \/ EnableResult
    \/ YieldServer
    \/ Shutdown
    \/ ShutdownReturns
    \/ Stop

ReadTask ==
    \/ RegisterCapabilityHandler
    \/ LangStatusHandler
    \/ ExecuteClientCommandHandler
    \/ WindowLogMessage
    \/ ResolveResponse

Next ==
    \/ Orchestrator
    \/ ReadTask
    \/ CallerExits
    \/ CallerRaises
    \/ ServerSends
    \/ ServerResponds
    \/ MembersPathRemoved

Spec == Init /\ [][Next]_vars

\* the event loop runs every task that can run: the coroutine of start_server
\* and the inbound-read task; nothing is assumed of the server or of the caller
FairSpec == Spec /\ WF_vars(Orchestrator) /\ WF_vars(ReadTask)

\* one object used for several sessions in turn
RestartNext ==
    \/ Next
    \/ StartServerAgain

RestartSpec == Init /\ [][RestartNext]_vars

\* provisioning alone: successive calls on any state of the static directory
ProvInit ==
    /\ HandshakeInit
    /\ platformId \in PlatformIds
    /\ fs \in {f \in SUBSET AllPaths(platformId) : Consistent(f, platformId)}
    /\ ppc = "idle"
    /\ call = 0
    /\ downloads = [c \in Calls |-> 0]
    /\ returned = [c \in Calls |-> NoPaths]
    /\ chmods = 0
    /\ OthersIdle

ProvNext ==
    \/ BeginCall
    \/ AssertPlatform
    \/ CheckGradle
    \/ DownloadGradle
    \/ AssertGradle
    \/ PrepareVscode
    \/ CheckVscode
    \/ DownloadVscode
    \/ Chmod
    \/ AssertVscode
    \/ PrepareIntellicode
    \/ CheckIntellicode
    \/ DownloadIntellicode
    \/ AssertIntellicodeAndReturn

ProvSpec == ProvInit /\ [][ProvNext]_vars

\* two sessions provision an empty static directory at the same time
ConcInit ==
    /\ HandshakeInit
    /\ platformId = SessionPlatform
    /\ fs = {}
    /\ ppc = "idle"
    /\ call = 0
    /\ downloads = [c \in Calls |-> 0]
    /\ returned = [c \in Calls |-> NoPaths]
    /\ chmods = 0
    /\ OthersIdle

ConcNext ==
    \E s \in Sessions :
        \/ SBegin(s)
        \/ SCheckGradle(s)
        \* lines 157-162
        \/ SDownload(s, "gradle_download", {gradle_path, gradle_contents_path},
                     "gradle_extract")
        \/ SExtract(s, "gradle_extract", "gradle_assert")
        \/ SAssertGradle(s)
        \/ SPrepareVscode(s)
        \/ SCheckVscode(s)
        \* lines 186-188
        \/ SDownload(s, "vscode_download", VscodeSubPaths(SessionPlatform),
                     "vscode_extract")
        \/ SExtract(s, "vscode_extract", "chmod")
        \/ SChmodAndAssertVscode(s)
        \/ SPrepareIntellicode(s)
        \/ SCheckIntellicode(s)
        \* lines 213-215
        \/ SDownload(s, "intellicode_download", IntellicodeSubPaths,
                     "intellicode_extract")
        \/ SExtract(s, "intellicode_extract", "intellicode_assert")
        \/ SAssertIntellicodeAndReturn(s)

ConcSpec == ConcInit /\ [][ConcNext]_vars

\* configurations are built and asked for their parameters, on a disk with
\* or without the runtime artifacts
ConfigInit ==
    /\ HandshakeInit
    /\ platformId = SessionPlatform
    /\ fs \in {{}, AllPaths(SessionPlatform)}
    /\ ppc = "idle"
    /\ call = 0
    /\ downloads = [c \in Calls |-> 0]
    /\ returned = [c \in Calls |-> NoPaths]
    /\ chmods = 0
    /\ OthersIdle

ConfigNext ==
    \/ BuildMultilspyConfig
    \/ BuildEclipseJDTLSConfig
    \/ CallGetInitializationParams

ConfigSpec == ConfigInit /\ [][ConfigNext]_vars

\* an EclipseJDTLSConfig is built, an EclipseJDTLS is constructed from it and
\* its process is started, on a static directory that is empty or provisioned
CtorInit ==
    /\ HandshakeInit
    /\ platformId \in PlatformIds
    /\ fs \in {{}, AllPaths(platformId)}
    /\ ppc = "idle"
    /\ call = 0
    /\ downloads = [c \in Calls |-> 0]
    /\ returned = [c \in Calls |-> NoPaths]
    /\ chmods = 0
    /\ OthersIdle

CtorNext ==
    \/ BuildEclipseJDTLSConfig
    \/ CtorGetInitializationParams
    \/ cpc = "setup" /\ call = 0 /\ BeginCall
    \/ SetupRunning /\ AssertPlatform
    \/ SetupRunning /\ CheckGradle
    \/ SetupRunning /\ DownloadGradle
    \/ SetupRunning /\ AssertGradle
    \/ SetupRunning /\ PrepareVscode
    \/ SetupRunning /\ CheckVscode
    \/ SetupRunning /\ DownloadVscode
    \/ SetupRunning /\ Chmod
    \/ SetupRunning /\ AssertVscode
    \/ SetupRunning /\ PrepareIntellicode
    \/ SetupRunning /\ CheckIntellicode
    \/ SetupRunning /\ DownloadIntellicode
    \/ SetupRunning /\ AssertIntellicodeAndReturn
    \/ CtorSetupReturns
    \/ CtorSetupRaises
    \/ CtorMakeWorkspace
    \/ CtorCopyConfig
    \/ CtorAssertAndLaunchInfo
    \/ StaticPathRemoved
    \* start_server is a method of the constructed object
    \/ cpc = "constructed" /\ RegisterHandlers
    \/ cpc = "constructed" /\ StartProcess

CtorSpec == CtorInit /\ [][CtorNext]_vars

(***************************************************************************)
(* Properties                                                              *)
(***************************************************************************)
BothSignalsSet == intellicode_enable_command_available /\ service_ready_event

\* the initialize response has arrived and is the one lines 301-303 accept
ValidInitializeResponse ==
    /\ init_response # NoResult
    /\ init_response.change = 2
    /\ ~init_response.completionProvider
    /\ ~init_response.executeCommandProvider

TruthyEnableResult ==
    intellicode_enable_result # NoResult /\ intellicode_enable_result.value = TRUE

Position(method) == CHOOSE i \in 1..Len(outbound) : outbound[i] = method

\* a client/registerCapability request that carries a workspace/executeCommand
\* registration listing java.intellicode.enable
AnnouncementObserved ==
    \E m \in observed :
        /\ m.method = "client/registerCapability"
        /\ \E i \in 1..Len(m.params.registrations) :
              LET r == m.params.registrations[i]
              IN  /\ r.method = "workspace/executeCommand"
                  /\ \E j \in 1..Len(r.registerOptions.commands) :
                        r.registerOptions.commands[j] = "java.intellicode.enable"

\* ---- C1 ----
\* C1 as stated: the caller holds the server only with both events set, and a
\* session with a valid initialize response and both events set reaches Ready,
\* so (with the members file in place) it never ends in failure without having
\* been yielded.
C1_ReadyIffBothSignals ==
    /\ (pc = "Ready" => BothSignalsSet)
    /\ (pc = "Failed" /\ ValidInitializeResponse /\ BothSignalsSet
            /\ intellisense_members_path \in fs
        => everReady)

\* C1, amended: whenever the caller holds the yielded server both events are
\* set; and once both are set after a valid initialize response and the
\* java.intellicode.enable request has returned a truthy result, the session
\* reaches Ready.
C1_ReadyOnlyWithSignals ==
    /\ [](pc = "Ready" => BothSignalsSet)
    /\ ((BothSignalsSet /\ ValidInitializeResponse /\ TruthyEnableResult) ~> everReady)

C1_Witness == pc = "Ready" /\ BothSignalsSet /\ TruthyEnableResult

\* ---- C2 ----
\* C2: when the caller's block raised while the session was Ready, the shutdown
\* request has been issued and the process has been stopped by the time
\* start_server has ended.
C2_TeardownAfterCallerException ==
    (pc = "Failed" /\ failure = "caller") => (Sent("shutdown") /\ ~processRunning)

\* ---- C3 ----
ScenarioBackend ==
    /\ ValidInitializeResponse
    /\ Sent("initialized")
    /\ RegisterCapability(<<GoodCompletion>>) \in observed
    /\ ServiceReady \in observed

\* C3 as stated: against the backend of the scenario (a valid initialize
\* response, the completion registration and the ServiceReady status) the
\* session reaches Ready, unless the backend sends something beyond the
\* scenario, and not before the ServiceReady status was handled.
C3_ScenarioReachesReady ==
    /\ [](everReady => ServiceReady \in observed)
    /\ ((ScenarioBackend /\ nSent = 2) ~> (everReady \/ nSent > 2))

\* C3, amended: the backend of the scenario must also register
\* workspace/executeCommand with java.intellicode.enable and answer that command
\* with a truthy result; then the session reaches Ready, and never before the
\* ServiceReady status was handled.
C3_ScenarioWithIntellicode ==
    /\ [](everReady => ServiceReady \in observed)
    /\ ((ScenarioBackend /\ RegisterCapability(<<IntellicodeCommands>>) \in observed
            /\ TruthyEnableResult) ~> everReady)

C3_Witness ==
    /\ pc = "Ready"
    /\ ScenarioBackend
    /\ RegisterCapability(<<IntellicodeCommands>>) \in observed

\* ---- C4 ----
WaitingOnSignal ==
    \/ pc = "AwaitIntellicode" /\ ~intellicode_enable_command_available
    \/ pc = "AwaitServiceReady" /\ ~service_ready_event

\* C4: a wait on a readiness signal is bounded: the session that waits on a
\* signal eventually leaves the wait, with the signal or with a timeout error
\* (a server that has sent all the messages of the bound is left out, so that
\* the wait is never one the bound explains).
C4_BoundedWait == WaitingOnSignal ~> (~WaitingOnSignal \/ nSent = MaxInbound)

\* ---- C5 ----
\* C5: once an initialize response with change # 2, with completionProvider or
\* with executeCommandProvider has arrived, start_server goes nowhere but to
\* failure: initialized is never sent and the server is never yielded.
C5_CapabilityMismatchFatal ==
    (/\ init_response # NoResult
     /\ \/ init_response.change # 2
        \/ init_response.completionProvider
        \/ init_response.executeCommandProvider)
    => /\ ~Sent("initialized")
       /\ ~everReady
       /\ pc \in {"InitializeSent", "Failed"}
       /\ (pc = "Failed" => failure = "capabilities")

C5_Witness ==
    /\ pc = "Failed"
    /\ failure = "capabilities"
    /\ init_response.change = 2
    /\ init_response.executeCommandProvider

\* ---- C6 ----
\* C6: when the handshake has failed after the process was started, the process
\* has been terminated.
C6_FailedHandshakeTornDown ==
    (pc = "Failed"
        /\ failure \in {"capabilities", "intellicode_enable_result",
                        "intellisense_members_path"})
    => ~processRunning

\* ---- C7 ----
\* C7: java.intellicode.enable is requested only after a registration that
\* announces it has been handled, at most once, the server is yielded only
\* after its result arrived truthy, and a falsy result ends the session.
C7_EnableStepOrdered ==
    /\ (Sent("workspace/executeCommand") => AnnouncementObserved)
    /\ Cardinality({i \in 1..Len(outbound) : outbound[i] = "workspace/executeCommand"}) <= 1
    /\ (everReady => TruthyEnableResult)
    /\ (intellicode_enable_result # NoResult /\ ~intellicode_enable_result.value
            => ~everReady /\ pc \in {"EnableSent", "Failed"})

C7_Witness ==
    /\ pc = "AwaitServiceReady"
    /\ Sent("workspace/executeCommand")
    /\ TruthyEnableResult
    /\ RegisterCapability(<<OtherCommands>>) \in observed

\* ---- C8 ----
\* C8: nothing is sent before the process is started, initialize is the first
\* message, initialized follows the arrival of a valid initialize response,
\* workspace/didChangeConfiguration follows initialized and precedes every wait
\* on a readiness signal.
C8_HandshakeOrder ==
    /\ (outbound # <<>> =>
            /\ pc \notin {"NotStarted", "HandlersRegistered"}
            /\ outbound[1] = "initialize")
    /\ (Sent("initialized") => ValidInitializeResponse)
    /\ (Sent("workspace/didChangeConfiguration") =>
            /\ Sent("initialized")
            /\ Position("workspace/didChangeConfiguration") = Position("initialized") + 1)
    /\ (pc \in {"AwaitIntellicode", "IntellicodeAvailable", "EnableSent",
                "AwaitServiceReady", "Ready"}
            => Sent("workspace/didChangeConfiguration"))

C8_Witness ==
    /\ pc = "AwaitIntellicode"
    /\ outbound = <<"initialize", "initialized", "workspace/didChangeConfiguration">>
    /\ inbound # <<>>

C10_ProvisioningIdempotent ==
    \A c \in Calls :
        (c + 1 \in Calls /\ returned[c] # NoPaths /\ returned[c + 1] # NoPaths)
        => (downloads[c + 1] = 0 /\ returned[c + 1] = returned[c])

C10_Witness ==
    /\ returned[1] # NoPaths
    /\ returned[2] # NoPaths
    /\ downloads[1] = 3

\* C11: whenever a call of setupRuntimeDependencies has returned, every one of
\* the eight paths of the RuntimeDependencyPaths it returned exists on disk; a
\* call that finds one of them missing after extraction raises instead.
C11_ReturnedPathsExist ==
    \A c \in Calls :
        returned[c] # NoPaths
            => \A k \in DOMAIN returned[c] : returned[c][k] \in fs
C11_Witness ==
    /\ call = 1
    /\ returned[1] # NoPaths
    /\ downloads[1] > 0
    /\ Cardinality(DOMAIN returned[1]) = 8

\* C12: an extraction directory that exists but is incomplete is never taken
\* for a provisioned artifact: a call that returns without having invoked
\* download_and_extract_archive leaves every artifact whole on disk.
C12_HalfWrittenNotProvisioned ==
    \A c \in Calls :
        (returned[c] # NoPaths /\ downloads[c] = 0)
            => AllPaths(platformId) \subseteq fs

\* C14: on a platform outside the allow-list of lines 144-147 no call invokes
\* download_and_extract_archive, none returns a RuntimeDependencyPaths, and a
\* call never gets past the platform assert.
C14_UnsupportedPlatformFailsFirst ==
    platformId \notin {"linux-x64", "win-x64"}
        => /\ \A c \in Calls : downloads[c] = 0 /\ returned[c] = NoPaths
           /\ ppc \in {"idle", "platform", "raised"}
C14_Witness == platformId = "osx-arm64" /\ call >= 1 /\ ppc = "raised"

\* C16: over successive calls that find the artifacts already present (none of
\* them downloads anything), os.chmod is applied to jre_path at most once.
C16_PermissionSetOnce ==
    (\A c \in Calls : downloads[c] = 0) => chmods <= 1

\* C13: when two sessions provision an empty static directory at the same
\* time, a session returns from setupRuntimeDependencies only when no artifact
\* is partly extracted: every path of every archive is then on disk.
C13_ConcurrentProvisioningSafe ==
    \A s \in Sessions :
        spc[s] = "returned" => AllPaths(SessionPlatform) \subseteq fs

\* C18: every MultilspyConfig that has been built has a language_server that is
\* unset or one of the servers registered for its code_language.
C18_ServerRegisteredForLanguage ==
    config # None
        => \/ config.language_server = NoServer
           \/ config.language_server \in RegisteredServers(config.code_language)

\* the value the three layers give a key: overrides, else custom file, else
\* default file
Layered(cfg, k) ==
    IF cfg.init_params_overrides # None /\ Has(cfg.init_params_overrides, k)
    THEN cfg.init_params_overrides[k]
    ELSE IF cfg.custom_init_params_file # None /\ Has(cfg.custom_init_params_file, k)
         THEN cfg.custom_init_params_file[k]
         ELSE DefaultParams(cfg.code_language)[k]

RootKeys == {"rootPath", "rootUri", "workspaceFolders"}

\* C19: when MultilspyConfig.get_initialization_params returns, every top-level
\* key has the value of the overrides if they hold it, else of the custom file
\* if it holds it, else of the default file; except that rootPath, rootUri and
\* workspaceFolders come from repository_absolute_path when it is provided, and
\* processId is the calling process's id.
C19_LayeredPrecedence ==
    (/\ config # None
     /\ config.class = "MultilspyConfig"
     /\ init_params # None
     /\ init_params.ok)
        => LET p == init_params.value
               repo == config.repository_absolute_path
           IN  /\ \A k \in Keys \ ({"processId"} \cup IF Provided(repo) THEN RootKeys ELSE {}) :
                      p[k] = Layered(config, k)
               /\ Provided(repo)
                      => /\ p["rootPath"] = repo
                         /\ p["rootUri"] = as_uri(repo).value
                         /\ p["workspaceFolders"] = Folders(repo)
               /\ p["processId"] = [pid |-> "os.getpid()"]

\* C20: when EclipseJDTLSConfig.get_initialization_params returns, rootPath is
\* an absolute path and rootUri, workspaceFolders and
\* initializationOptions.workspaceFolders all denote that same location.
C20_RootResolvedAbsolute ==
    (/\ config # None
     /\ config.class = "EclipseJDTLSConfig"
     /\ init_params # None
     /\ init_params.ok)
        => LET p == init_params.value
           IN  /\ "abs" \in DOMAIN p["rootPath"]
               /\ p["rootPath"].abs
               /\ p["rootUri"] = as_uri(p["rootPath"]).value
               /\ p["workspaceFolders"] = Folders(p["rootPath"])
               /\ p["initializationOptions"]["workspaceFolders"]
                      = [list |-> <<as_uri(p["rootPath"]).value>>]

\* C15: a ProcessLaunchInfo exists, and a process runs, only while the JRE
\* executable, the lombok jar, the launcher jar, the per-session config
\* directory and the read-only config directory all exist; a construction that
\* raised has built no ProcessLaunchInfo and no process is started for it.
C15_LaunchPrecondition ==
    /\ launch_info # None
          => /\ jre_path(platformId) \in fs
             /\ lombok_jar_path(platformId) \in fs
             /\ jdtls_launcher_jar_path(platformId) \in fs
             /\ jdtls_config_path \in fs
             /\ jdtls_readonly_config_path(platformId) \in fs
    /\ cpc = "raised" => launch_info = None
    /\ (pc # "NotStarted" \/ processRunning) => launch_info # None
C15_Witness ==
    /\ processRunning
    /\ launch_info # None
    /\ downloads[1] > 0

\* C17: when repository_absolute_path is not provided and the layered
\* parameters have rootPath "$rootPath", the construction gets no further than
\* get_initialization_params, which raises MultilspyException: no call of
\* setupRuntimeDependencies has begun, the workspace directory has not been
\* created, no ProcessLaunchInfo exists and no process runs.
C17_ConfigErrorBeforeSideEffects ==
    (/\ config # None
     /\ ~Provided(config.repository_absolute_path)
     /\ LayeredParams(config)["rootPath"] = [placeholder |-> "$rootPath"])
        => /\ cpc \in {"idle", "raised"}
           /\ init_params # None => init_params = Raised("MultilspyException")
           /\ call = 0 /\ ppc = "idle"
           /\ \A c \in Calls : downloads[c] = 0
           /\ ws_dir \notin fs
           /\ launch_info = None
           /\ ~processRunning
C17_Witness ==
    /\ cpc = "raised"
    /\ init_params = Raised("MultilspyException")
    /\ config.repository_absolute_path = None
    /\ fs = {}

\* C21: within a session a readiness signal is never cleared, and it changes
\* only in the step that dispatches its own message: service_ready_event on a
\* language/status notification whose type and message are both "ServiceReady",
\* intellicode_enable_command_available on a client/registerCapability request
\* with a workspace/executeCommand registration listing java.intellicode.enable.
C21_SignalsSetByOwnHandler ==
    [][/\ service_ready_event => service_ready_event'
       /\ intellicode_enable_command_available => intellicode_enable_command_available'
       /\ service_ready_event' # service_ready_event
              => /\ inbound # <<>>
                 /\ Head(inbound).kind # "response"
                 /\ Head(inbound).method = "language/status"
                 /\ Head(inbound).params.type = "ServiceReady"
                 /\ Head(inbound).params.message = "ServiceReady"
       /\ intellicode_enable_command_available' # intellicode_enable_command_available
              => /\ inbound # <<>>
                 /\ Head(inbound).kind # "response"
                 /\ Head(inbound).method = "client/registerCapability"
                 /\ \E i \in 1..Len(Head(inbound).params.registrations) :
                       LET r == Head(inbound).params.registrations[i]
                       IN  /\ r.method = "workspace/executeCommand"
                           /\ \E j \in 1..Len(r.registerOptions.commands) :
                                 r.registerOptions.commands[j] = "java.intellicode.enable"
      ]_vars
C21_Witness ==
    /\ service_ready_event
    /\ intellicode_enable_command_available
    /\ LogMessage \in observed

\* C23: once a client/registerCapability or workspace/executeClientCommand
\* handler has failed one of its asserts on the received content, start_server
\* does not go on to Ready.
C23_UnexpectedContentFatal ==
    [][(handlerRaised /\ pc # "Ready") => pc' # "Ready"]_vars

\* the server has sent m: it waits in the inbound stream or was dispatched
Arrived(m) == m \in observed \/ \E i \in 1..Len(inbound) : inbound[i] = m

\* the orchestrator is at a wait whose signal message has arrived
SignalArrivedAtWait ==
    \/ pc = "AwaitIntellicode" /\ Arrived(RegisterCapability(<<IntellicodeCommands>>))
    \/ pc = "AwaitServiceReady" /\ Arrived(ServiceReady)

\* C24: no wakeup is lost, whatever the interleaving of the read task with the
\* orchestrator: a wait whose signal message has arrived, before or after the
\* orchestrator got to the wait, is left; and once both signal messages have
\* arrived, in either order, and java.intellicode.enable was answered with a
\* truthy result, the session reaches Ready.
C24_NoLostWakeup ==
    /\ SignalArrivedAtWait ~> ~SignalArrivedAtWait
    /\ (/\ Arrived(RegisterCapability(<<IntellicodeCommands>>))
        /\ Arrived(ServiceReady)
        /\ TruthyEnableResult)
          ~> everReady
\* both signals were set before the initialize response, well before the waits
C24_Witness ==
    /\ pc = "InitializeSent"
    /\ init_response = NoResult
    /\ service_ready_event
    /\ intellicode_enable_command_available

\* this session is not the first one started on the object
LaterSession == \A m \in HandlerMethods : handlers[m] > 1

\* C22: readiness observed in an earlier session does not carry over: a later
\* session on the same object is at Ready only after its own server has sent,
\* and the read task dispatched, both signal messages.
C22_ReadinessNotCarriedOver ==
    (LaterSession /\ pc = "Ready")
        => (ServiceReady \in observed /\ AnnouncementObserved)

\* the seven handlers of lines 284-290 are in place whenever the process runs
RegisteredBeforeStart ==
    processRunning => \A m \in HandlerMethods : handlers[m] >= 1

\* C25: the handlers of all seven methods are registered before
\* server.start(), and over the lifetime of the object no method has a
\* handler registered more than once on its transport.
C25_RegisteredOnceBeforeStart ==
    /\ RegisteredBeforeStart
    /\ \A m \in HandlerMethods : handlers[m] <= 1
====
